---------------------------- MODULE Spec2Model ----------------------------
(* Model of src/app.js: the five visual behaviours of the portfolio page.  *)
(* Cursor follower, mobile menu, particle field, glitch text and scroll    *)
(* reveal, each event handler of the script being one action.              *)
EXTENDS Integers, Sequences, FiniteSets, TLC

VARIABLES
    cursorPos,      \* cursor.style.left/top   ("" until first set, else <<x, y>>)
    followerPos,    \* follower.style.left/top ("" until first set, else <<x, y>>)
    timers,         \* pending setTimeout callbacks of the mousemove handler, oldest first
    hover,          \* follower.classList contains 'cursor-hover'
    inside,         \* registered links the pointer is currently inside (browser state)
    active,         \* navMenu.classList contains 'active'
    bars,           \* inline styles of the three .bar elements the handlers write
    menuClicked,    \* has the menu toggle or a nav link been clicked yet (history)
    width,          \* let width  (px)
    height,         \* let height (px)
    canvasSize,     \* <<canvas.width, canvas.height>>
    particles,      \* let particles (array of Particle)
    dots,           \* arcs filled by the latest call of animate, in drawing order
    lines,          \* connecting lines stroked by the latest call of animate
    rafPending,     \* number of pending requestAnimationFrame(animate) callbacks
    frameNo,        \* number of animation frames run so far
    originalText,   \* const originalText (data-text), a sequence of characters
    initialText,    \* glitchText.innerText as the page was loaded
    text,           \* glitchText.innerText
    runs,           \* one entry per startGlitch call: its counter and whether its interval is set
    elStyle,        \* per observed element: class 'visible', style.opacity, style.transform
    intersecting,   \* per observed element: does it intersect the viewport (browser state)
    entries,        \* IntersectionObserver entries queued for the next callback
    intersected,    \* observed elements for which an intersecting entry was delivered
    ev,             \* the event handled last: [kind, arg]
    moveLog,        \* positions the cursor marker was given, in order (history, follower spec only)
    followLog,      \* positions the follower marker was given, in order (history, follower spec only)
    clock           \* number of tasks the page's event loop has run (whole-page spec only)

pointerVars  == <<cursorPos, followerPos, timers, hover, inside>>
menuVars     == <<active, bars, menuClicked>>
particleVars == <<width, height, canvasSize, particles, dots, lines, rafPending, frameNo>>
glitchVars   == <<originalText, initialText, text, runs>>
revealVars   == <<elStyle, intersecting, entries, intersected>>
logVars == <<moveLog, followLog>>
vars == <<pointerVars, menuVars, particleVars, glitchVars, revealVars, ev, clock, logVars>>

Event(k, a) == [kind |-> k, arg |-> a]

Min(a, b) == IF a < b THEN a ELSE b

-----------------------------------------------------------------------------
(* Bounds of the model *)

MaxCoord   == 1     \* pointer coordinates range over 0..MaxCoord
MaxPending == 2     \* at most this many follower timers pending at once
MaxLen     == 2     \* target strings of 0..MaxLen characters
MaxRuns    == 2     \* startGlitch is called at most this many times
MaxRand    == 0     \* Math.floor(Math.random() * chars.length) ranges over 0..MaxRand
MaxFrames  == 3     \* animation frames explored
NumObserved == 2    \* number of elements matched by the scroll-reveal selector
MaxEntries == 3     \* observer entries queued at once
MaxEvents  == 3     \* tasks explored by the whole-page specification
MaxMoves   == 3     \* mousemove events logged by the follower specification

-----------------------------------------------------------------------------
(* Cursor follower: src/app.js 1-24 *)

Coords == 0 .. MaxCoord

Px(x, y) == <<x, y>>

\* DOM fixture for querySelectorAll('a, button, .menu-toggle'): link 2 is
\* nested inside link 1, link 3 stands alone.  0 means: no registered ancestor.
LinkParent == <<0, 1, 0>>

Links == 1 .. Len(LinkParent)

InitPointer ==
    /\ cursorPos = ""
    /\ followerPos = ""
    /\ timers = <<>>
    /\ hover = FALSE
    /\ inside = {}

\* document 'mousemove' listener
MouseMove(x, y) ==
    /\ Len(timers) < MaxPending
    /\ cursorPos' = Px(x, y)
    /\ timers' = Append(timers, Px(x, y))
    /\ ev' = Event("mousemove", Px(x, y))
    /\ UNCHANGED <<followerPos, hover, inside>>
    /\ UNCHANGED <<menuVars, particleVars, glitchVars, revealVars>>

\* mutant: the newest pending timer runs first
FollowerTimer_Newest ==
    /\ timers # <<>>
    /\ followerPos' = timers[Len(timers)]
    /\ timers' = SubSeq(timers, 1, Len(timers) - 1)
    /\ ev' = Event("timer", timers[Len(timers)])
    /\ UNCHANGED <<cursorPos, hover, inside>>
    /\ UNCHANGED <<menuVars, particleVars, glitchVars, revealVars>>

\* the setTimeout callback of a mousemove; equal delays run in scheduling order
FollowerTimer ==
    /\ timers # <<>>
    /\ followerPos' = Head(timers)
    /\ timers' = Tail(timers)
    /\ ev' = Event("timer", Head(timers))
    /\ UNCHANGED <<cursorPos, hover, inside>>
    /\ UNCHANGED <<menuVars, particleVars, glitchVars, revealVars>>

Innermost(l) == l \in inside /\ \A c \in inside : LinkParent[c] # l

\* the browser dispatches mouseenter on l when the pointer comes into l
CanEnter(l) ==
    /\ l \notin inside
    /\ IF LinkParent[l] = 0 THEN inside = {} ELSE Innermost(LinkParent[l])

\* link 'mouseenter' listener
MouseEnter(l) ==
    /\ CanEnter(l)
    /\ inside' = inside \cup {l}
    /\ hover' = TRUE
    /\ ev' = Event("mouseenter", l)
    /\ UNCHANGED <<cursorPos, followerPos, timers>>
    /\ UNCHANGED <<menuVars, particleVars, glitchVars, revealVars>>

\* link 'mouseleave' listener
MouseLeave(l) ==
    /\ Innermost(l)
    /\ inside' = inside \ {l}
    /\ hover' = FALSE
    /\ ev' = Event("mouseleave", l)
    /\ UNCHANGED <<cursorPos, followerPos, timers>>
    /\ UNCHANGED <<menuVars, particleVars, glitchVars, revealVars>>

-----------------------------------------------------------------------------
(* Mobile menu: src/app.js 26-53 *)

BarsOpen == [t0 |-> "rotate(-45deg) translate(-5px, 6px)",
             o1 |-> "0",
             t2 |-> "rotate(45deg) translate(-5px, -6px)"]

BarsReset == [t0 |-> "rotate(0)", o1 |-> "1", t2 |-> "rotate(0)"]

BarsUnset == [t0 |-> "", o1 |-> "", t2 |-> ""]

InitMenu ==
    /\ active = FALSE
    /\ bars = BarsUnset
    /\ menuClicked = FALSE

\* menuToggle 'click' listener
MenuToggle ==
    /\ active' = ~active
    /\ bars' = IF active' THEN BarsOpen ELSE BarsReset
    /\ menuClicked' = TRUE
    /\ ev' = Event("toggle", 0)
    /\ UNCHANGED <<pointerVars, particleVars, glitchVars, revealVars>>

\* mutant: the nav-link handler forgets the bars
NavLinkClick_KeepBars ==
    /\ active' = FALSE
    /\ bars' = bars
    /\ menuClicked' = TRUE
    /\ ev' = Event("navclick", 0)
    /\ UNCHANGED <<pointerVars, particleVars, glitchVars, revealVars>>

\* mutant: the nav-link handler toggles the class instead of removing it
NavLinkClick_Toggle ==
    /\ active' = ~active
    /\ bars' = BarsReset
    /\ menuClicked' = TRUE
    /\ ev' = Event("navclick", 0)
    /\ UNCHANGED <<pointerVars, particleVars, glitchVars, revealVars>>

\* .nav-link 'click' listener
NavLinkClick ==
    /\ active' = FALSE
    /\ bars' = BarsReset
    /\ menuClicked' = TRUE
    /\ ev' = Event("navclick", 0)
    /\ UNCHANGED <<pointerVars, particleVars, glitchVars, revealVars>>

-----------------------------------------------------------------------------
(* Particle field: src/app.js 55-135 *)

\* Fixed-point resolution: coordinates, velocities and sizes are held in
\* 1/Unit px, and Math.random() returns r/Unit for an r in 0..Unit-1.
Unit == 4

DistLimit == 150            \* if (distance < 150)
WidthPerParticle == 10      \* Math.floor(width / 10)
MaxParticles == 100         \* Math.min(..., 100)

\* window.innerWidth / window.innerHeight values the viewport takes (px)
Widths == {25, 1200}
Heights == {100, 300}

\* Math.random() outcomes (numerators r of r/Unit), in call order; a stream
\* is read cyclically, five calls per Particle (x, y, vx, vy, size).
StreamA == <<0, 0, 2, 2, 0,   0, 2, 2, 1, 1>>
StreamB == <<0, 0, 0, 0, 3,   3, 3, 3, 3, 2>>
StreamC == <<2, 1, 1, 3, 0,   2, 3, 2, 0, 1>>

RandomStreams == {StreamA, StreamB, StreamC}

Rand(stream, k) == stream[(k % Len(stream)) + 1]

\* new Particle(), the k-th constructed (k from 0), under viewport w x h
NewParticle(stream, k, w, h) ==
    [ id   |-> k,
      x    |-> Rand(stream, 5 * k) * w,
      y    |-> Rand(stream, 5 * k + 1) * h,
      vx   |-> (2 * Rand(stream, 5 * k + 2) - Unit) \div 2,
      vy   |-> (2 * Rand(stream, 5 * k + 3) - Unit) \div 2,
      size |-> Rand(stream, 5 * k + 4) * 2 + Unit ]

\* mutant: the count is not capped
ParticleCount_NoCap(w) == w \div WidthPerParticle

ParticleCount(w) == Min(w \div WidthPerParticle, MaxParticles)

\* initParticles()
InitParticles(stream, w, h) ==
    [k \in 1 .. ParticleCount(w) |-> NewParticle(stream, k - 1, w, h)]

\* mutant: the resize listener builds the particles anew
Resize_Reinit(w, h) ==
    /\ width' = w
    /\ height' = h
    /\ canvasSize' = <<w, h>>
    /\ particles' = InitParticles(StreamB, w, h)
    /\ ev' = Event("resize", <<w, h>>)
    /\ UNCHANGED <<dots, lines, rafPending, frameNo>>
    /\ UNCHANGED <<pointerVars, menuVars, glitchVars, revealVars>>

\* mutant: the resize listener also calls animate()
Resize_Restart(w, h) ==
    /\ width' = w
    /\ height' = h
    /\ canvasSize' = <<w, h>>
    /\ rafPending' = rafPending + 1
    /\ ev' = Event("resize", <<w, h>>)
    /\ UNCHANGED <<particles, dots, lines, frameNo>>
    /\ UNCHANGED <<pointerVars, menuVars, glitchVars, revealVars>>

\* window 'resize' listener
Resize(w, h) ==
    /\ width' = w
    /\ height' = h
    /\ canvasSize' = <<w, h>>
    /\ ev' = Event("resize", <<w, h>>)
    /\ UNCHANGED <<particles, dots, lines, rafPending, frameNo>>
    /\ UNCHANGED <<pointerVars, menuVars, glitchVars, revealVars>>

\* Particle.update()
Update(p) ==
    LET nx == p.x + p.vx
        ny == p.y + p.vy
    IN  [p EXCEPT !.x = nx,
                  !.y = ny,
                  !.vx = IF nx < 0 \/ nx > width * Unit THEN -p.vx ELSE p.vx,
                  !.vy = IF ny < 0 \/ ny > height * Unit THEN -p.vy ELSE p.vy]

\* Math.sqrt(dx * dx + dy * dy) < 150, on positions <<x, y>> in 1/Unit px
Near(a, b) ==
    LET dx == a[1] - b[1]
        dy == a[2] - b[2]
    IN  dx * dx + dy * dy < (DistLimit * Unit) * (DistLimit * Unit)

Pos(p) == <<p.x, p.y>>

\* The forEach of animate(): particle i is updated and drawn, then joined to
\* every later particle j as particles[j] stands at that moment.
Connections(old) ==
    UNION { LET at == Pos(Update(old[i]))
            IN  { [a |-> i, b |-> j, from |-> at, to |-> Pos(old[j])] :
                    j \in { k \in i + 1 .. Len(old) : Near(at, Pos(old[k])) } } :
            i \in 1 .. Len(old) }

Updated(old) == [i \in 1 .. Len(old) |-> Update(old[i])]

Dots(new) == [i \in 1 .. Len(new) |-> Pos(new[i])]

\* animate(): one animation frame, run from a requestAnimationFrame callback;
\* it requests the next frame.
Animate ==
    /\ frameNo < MaxFrames
    /\ rafPending > 0
    /\ particles' = Updated(particles)
    /\ dots' = Dots(particles')
    /\ lines' = Connections(particles)
    /\ rafPending' = (rafPending - 1) + 1
    /\ frameNo' = frameNo + 1
    /\ ev' = Event("frame", frameNo + 1)
    /\ UNCHANGED <<width, height, canvasSize>>
    /\ UNCHANGED <<pointerVars, menuVars, glitchVars, revealVars>>

\* resize(); initParticles(); animate(); as the script runs them on load
LoadCanvas(ws, hs, streams) ==
    /\ width \in ws
    /\ height \in hs
    /\ canvasSize = <<width, height>>
    /\ \E stream \in streams :
         LET made == InitParticles(stream, width, height)
         IN  /\ particles = Updated(made)
             /\ dots = Dots(Updated(made))
             /\ lines = Connections(made)
    /\ rafPending = 1
    /\ frameNo = 1

InitCanvas == LoadCanvas(Widths, Heights, RandomStreams)

-----------------------------------------------------------------------------
(* Glitch text: src/app.js 137-164 *)

\* const chars = '!<>-_\\/[]{}—=+*^?#________' (26 characters; the em dash
\* is written by its code point)
chars == << "!", "<", ">", "-", "_", "\\", "/", "[", "]", "{", "}", "U+2014",
            "=", "+", "*", "^", "?", "#",
            "_", "_", "_", "_", "_", "_", "_", "_" >>

\* what originalText[index] yields past the end of the string
Undefined == "undefined"

\* data-text fixture: the targets are the prefixes of Name of 0..MaxLen characters
Name == << "G", "o", "w", "s", "h", "i", "g", "a", "n", "V", "2", "5" >>

Targets == { SubSeq(Name, 1, l) : l \in 0 .. MaxLen }

Filled(l) == [i \in 1 .. l |-> "x"]

\* texts the page may show on load for a given target: the target itself, or
\* a placeholder one character shorter, as long, or one character longer
InitialTexts(target) ==
    {target} \cup { Filled(l) : l \in { m \in Len(target) - 1 .. Len(target) + 1 : m >= 0 } }

\* 'iterations += 1 / 3' in IEEE-754 doubles: the sign of (iterations - k)
\* when the counter has been incremented 3k times, for k = 0, 1, 2, ...
\* (1/3 + 1/3 + ... is not exact: after 6 increments it is 1.9999999999999998)
IterErr == << 0, 0, -1, 0, 0, -1, -1, -1, -1, -1, 0, 1, 1, 1, 1, 1, 1, 1, 1, 0, -1, -1, -1, -1 >>

\* index < iterations, after n increments of iterations
IndexBelow(index, n) ==
    \/ 3 * index < n
    \/ 3 * index = n /\ IterErr[(n \div 3) + 1] > 0

\* mutant: the interval is cleared one character early (>= length - 1)
ReachedEnd_Early(n, len) ==
    \/ n > 3 * (len - 1)
    \/ n = 3 * (len - 1) /\ IterErr[len] >= 0

\* mutant: the interval is cleared on a strict comparison (> length)
ReachedEnd_Strict(n, len) ==
    \/ n > 3 * len
    \/ n = 3 * len /\ IterErr[len + 1] > 0

\* iterations >= originalText.length, after n increments of iterations
ReachedEnd(n, len) ==
    \/ n > 3 * len
    \/ n = 3 * len /\ IterErr[len + 1] >= 0

\* the .map callback: the character put at a (0-based) index
MapLetter(index, n, r) ==
    IF IndexBelow(index, n)
    THEN IF index < Len(originalText) THEN originalText[index + 1] ELSE Undefined
    ELSE chars[r + 1]

\* Array.prototype.join(''): an undefined element contributes nothing
Join(arr) == SelectSeq(arr, LAMBDA c : c # Undefined)

\* the indexes of t at which the map callback calls Math.random()
RandomAt(t, n) == { i \in 1 .. Len(t) : ~IndexBelow(i - 1, n) }

\* glitchText.innerText.split('').map(...).join(''), rnd giving the random
\* index drawn at each position that draws one
Scramble(t, n, rnd) ==
    Join([i \in 1 .. Len(t) |-> MapLetter(i - 1, n, IF i \in DOMAIN rnd THEN rnd[i] ELSE 0)])

NewRun == [n |-> 0, active |-> TRUE]

\* the page's text and target on load, and the startGlitch() call of line 163
LoadGlitch(targets) ==
    /\ originalText \in targets
    /\ initialText \in InitialTexts(originalText)
    /\ text = initialText
    /\ runs = << NewRun >>

InitGlitch == LoadGlitch(Targets)

\* startGlitch() as the 'mouseover' listener
StartGlitch ==
    /\ Len(runs) < MaxRuns
    /\ runs' = Append(runs, NewRun)
    /\ ev' = Event("mouseover", Len(runs) + 1)
    /\ UNCHANGED <<originalText, initialText, text>>
    /\ UNCHANGED <<pointerVars, menuVars, particleVars, revealVars>>

\* whether the tick with counter n leaves the interval set
StaysActive(n) == ~ReachedEnd(n, Len(originalText))

\* one setInterval callback of run r
GlitchTick(r) ==
    /\ r \in 1 .. Len(runs)
    /\ runs[r].active
    /\ \E rnd \in [RandomAt(text, runs[r].n) -> 0 .. MaxRand] :
         text' = Scramble(text, runs[r].n, rnd)
    /\ runs' = [runs EXCEPT ![r] = [n |-> @.n + 1, active |-> StaysActive(@.n)]]
    /\ ev' = Event("tick", r)
    /\ UNCHANGED <<originalText, initialText>>
    /\ UNCHANGED <<pointerVars, menuVars, particleVars, revealVars>>

-----------------------------------------------------------------------------
(* Scroll reveal: src/app.js 166-186 *)

Observed == 1 .. NumObserved

\* an observed element as the forEach of line 181 leaves it
Hidden == [visible |-> FALSE, opacity |-> 0, transform |-> "translateY(20px)",
           transition |-> "opacity 0.6s ease, transform 0.6s ease"]

\* the body of 'if (entry.isIntersecting)'
Show(st) == [st EXCEPT !.visible = TRUE, !.opacity = 1, !.transform = "translateY(0)"]

Entry(el, b) == [target |-> el, isIntersecting |-> b]

\* the elements after observe(): the observer queues a first entry for each
LoadReveal(views) ==
    /\ elStyle = [el \in Observed |-> Hidden]
    /\ intersecting \in views
    /\ entries = [el \in Observed |-> Entry(el, intersecting[el])]
    /\ intersected = {}

InitReveal == LoadReveal([Observed -> BOOLEAN])

\* scrolling moves el across the threshold: the observer queues an entry
ViewportChange(el) ==
    /\ Len(entries) < MaxEntries
    /\ intersecting' = [intersecting EXCEPT ![el] = ~@]
    /\ entries' = Append(entries, Entry(el, ~intersecting[el]))
    /\ ev' = Event("scroll", el)
    /\ UNCHANGED <<elStyle, intersected>>
    /\ UNCHANGED <<pointerVars, menuVars, particleVars, glitchVars>>

Reported(el) == \E i \in 1 .. Len(entries) : entries[i] = Entry(el, TRUE)

\* mutant: an entry that is not intersecting hides the element again
AfterEntries_Hide(el) ==
    IF \E i \in 1 .. Len(entries) : entries[i] = Entry(el, FALSE)
    THEN Hidden
    ELSE IF Reported(el) THEN Show(elStyle[el]) ELSE elStyle[el]

\* what the callback's entries.forEach does to element el
AfterEntries(el) == IF Reported(el) THEN Show(elStyle[el]) ELSE elStyle[el]

\* the IntersectionObserver callback, given every queued entry
ObserverCallback ==
    /\ entries # <<>>
    /\ elStyle' = [el \in Observed |-> AfterEntries(el)]
    /\ intersected' = intersected \cup { el \in Observed : Reported(el) }
    /\ entries' = <<>>
    /\ ev' = Event("observer", Len(entries))
    /\ UNCHANGED intersecting
    /\ UNCHANGED <<pointerVars, menuVars, particleVars, glitchVars>>

-----------------------------------------------------------------------------
(* Specifications *)

\* One loaded page for the components a specification keeps at rest
QuietPointer == InitPointer
QuietMenu    == InitMenu
QuietCanvas  == LoadCanvas({25}, {300}, {StreamA})
QuietGlitch  == LoadGlitch({SubSeq(Name, 1, 1)}) /\ initialText = originalText
QuietReveal  == LoadReveal({[el \in Observed |-> FALSE]})

Loaded == ev = Event("load", 0) /\ clock = 0 /\ moveLog = <<>> /\ followLog = <<>>

\* a component specification does not count tasks
Still == UNCHANGED <<clock, logVars>>

\* the whole-page specification counts them, and stops at MaxEvents
Task == clock < MaxEvents /\ clock' = clock + 1 /\ UNCHANGED logVars

\* pointer and menu: the mouse moves, hovers and clicks
InitPointerMenu ==
    InitPointer /\ InitMenu /\ QuietCanvas /\ QuietGlitch /\ QuietReveal /\ Loaded

NextPointerMenu ==
    \/ \E x \in Coords, y \in Coords : MouseMove(x, y) /\ Still
    \/ FollowerTimer /\ Still
    \/ \E l \in Links : MouseEnter(l) /\ Still
    \/ \E l \in Links : MouseLeave(l) /\ Still
    \/ MenuToggle /\ Still
    \/ NavLinkClick /\ Still

SpecPointerMenu == InitPointerMenu /\ [][NextPointerMenu]_vars

\* the cursor follower, with the positions both markers are given logged
NextFollower ==
    \/ /\ Len(moveLog) < MaxMoves
       /\ \E x \in Coords, y \in Coords : MouseMove(x, y)
       /\ moveLog' = Append(moveLog, cursorPos')
       /\ UNCHANGED <<followLog, clock>>
    \/ /\ FollowerTimer
       /\ followLog' = Append(followLog, followerPos')
       /\ UNCHANGED <<moveLog, clock>>

SpecFollower == InitPointerMenu /\ [][NextFollower]_vars

\* the particle field
InitParticleField ==
    QuietPointer /\ QuietMenu /\ InitCanvas /\ QuietGlitch /\ QuietReveal /\ Loaded

NextParticleField ==
    \/ \E w \in Widths, h \in Heights : Resize(w, h) /\ Still
    \/ Animate /\ Still

SpecParticleField == InitParticleField /\ [][NextParticleField]_vars

\* the glitch text
InitGlitchText ==
    QuietPointer /\ QuietMenu /\ QuietCanvas /\ InitGlitch /\ QuietReveal /\ Loaded

NextGlitchText ==
    \/ StartGlitch /\ Still
    \/ \E r \in 1 .. MaxRuns : GlitchTick(r) /\ Still

SpecGlitchText == InitGlitchText /\ [][NextGlitchText]_vars

\* while an interval is set, the event loop goes on running interval callbacks
FairGlitchText ==
    SpecGlitchText /\ WF_vars(\E r \in 1 .. MaxRuns : GlitchTick(r) /\ Still)

\* the glitch text with the whole of Name as its target
InitLongGlitch ==
    QuietPointer /\ QuietMenu /\ QuietCanvas /\ LoadGlitch({Name}) /\ QuietReveal /\ Loaded

SpecLongGlitch == InitLongGlitch /\ [][NextGlitchText]_vars

\* the scroll reveal
InitScrollReveal ==
    QuietPointer /\ QuietMenu /\ QuietCanvas /\ QuietGlitch /\ InitReveal /\ Loaded

NextScrollReveal ==
    \/ \E el \in Observed : ViewportChange(el) /\ Still
    \/ ObserverCallback /\ Still

SpecScrollReveal == InitScrollReveal /\ [][NextScrollReveal]_vars

\* the whole page: every handler, for the first MaxEvents tasks of the event loop
Init ==
    QuietPointer /\ QuietMenu /\ QuietCanvas /\ QuietGlitch /\ QuietReveal /\ Loaded

Next ==
    \/ \E x \in Coords, y \in Coords : MouseMove(x, y) /\ Task
    \/ FollowerTimer /\ Task
    \/ \E l \in Links : MouseEnter(l) /\ Task
    \/ \E l \in Links : MouseLeave(l) /\ Task
    \/ MenuToggle /\ Task
    \/ NavLinkClick /\ Task
    \/ \E w \in Widths, h \in Heights : Resize(w, h) /\ Task
    \/ Animate /\ Task
    \/ StartGlitch /\ Task
    \/ \E r \in 1 .. MaxRuns : GlitchTick(r) /\ Task
    \/ \E el \in Observed : ViewportChange(el) /\ Task
    \/ ObserverCallback /\ Task

Spec == Init /\ [][Next]_vars

-----------------------------------------------------------------------------
(* Claims *)

\* C1: the three bars are in their open form exactly when the menu carries
\* 'active'; once the toggle or a nav link has been clicked they are in their
\* reset form exactly when it does not; before the first click the menu is
\* closed and the bars carry no inline style.
C1_MenuLockstep ==
    /\ (bars.t0 = "rotate(-45deg) translate(-5px, 6px)" /\ bars.o1 = "0"
          /\ bars.t2 = "rotate(45deg) translate(-5px, -6px)") <=> active
    /\ menuClicked =>
         ((bars.t0 = "rotate(0)" /\ bars.o1 = "1" /\ bars.t2 = "rotate(0)") <=> ~active)
    /\ ~menuClicked => ~active

\* C1 witness: a toggle click has opened the menu after the follower moved
C1_Witness ==
    /\ ev.kind = "toggle"
    /\ active
    /\ bars = BarsOpen
    /\ followerPos # ""

\* C5: a mousemove puts the cursor marker at the event's coordinates and
\* schedules a timer carrying them; while timers are pending the cursor is
\* where the newest of them will put the follower, and once none is pending
\* the follower is where the cursor is.
C5_FollowerCatchesUp ==
    /\ ev.kind = "mousemove" => cursorPos = ev.arg /\ timers # <<>>
    /\ timers # <<>> => cursorPos = timers[Len(timers)]
    /\ timers = <<>> => followerPos = cursorPos

\* C5 witness: the last pending timer has fired after the pointer moved to (1, 0)
C5_Witness ==
    /\ ev.kind = "timer"
    /\ timers = <<>>
    /\ cursorPos = <<1, 0>>
    /\ followerPos = <<1, 0>>

\* C6 (as claimed): the follower carries 'cursor-hover' exactly when the
\* pointer is inside at least one registered element, nested ones included.
C6_HoverIffInside == hover <=> inside # {}

\* C10: a nav-link click leaves the menu closed with the bars reset whatever
\* it was before; on a menu that is already closed with reset bars it changes
\* nothing; and the menu-toggle click that follows a nav-link click opens it.
C10_NavLinkCloses ==
    [][ /\ ev'.kind = "navclick" => ~active' /\ bars' = BarsReset
        /\ (ev'.kind = "navclick" /\ ~active /\ bars = BarsReset)
             => (active' = active /\ bars' = bars)
        /\ (ev.kind = "navclick" /\ ev'.kind = "toggle")
             => (active' /\ bars' = BarsOpen) ]_vars

\* C10 witness: a nav link was clicked and the menu is closed, bars reset
C10_Witness ==
    /\ ev.kind = "navclick"
    /\ ~active
    /\ bars = BarsReset
    /\ hover

\* C2: when the text shown on load has as many characters as the target, then
\* in every state where every started run has cleared its interval the text
\* shown is the target, however many runs there were and however their ticks
\* interleaved.
C2_GlitchResult ==
    (Len(initialText) = Len(originalText) /\ \A r \in 1 .. Len(runs) : ~runs[r].active)
        => text = originalText

\* C2 witness: two runs have ended on a two-character target that the page
\* did not show on load
C2_Witness ==
    /\ Len(runs) = 2
    /\ \A r \in 1 .. Len(runs) : ~runs[r].active
    /\ originalText = <<"G", "o">>
    /\ initialText = <<"x", "x">>
    /\ text = originalText

\* ticks a run makes before its interval is cleared: 3L + 1 when the sum of
\* 3L thirds reaches L, one more when the doubles fall short of it
C3_Ticks(len) == 3 * len + 1 + (IF IterErr[len + 1] < 0 THEN 1 ELSE 0)

\* C3: a run whose interval is cleared has made a number of ticks fixed by the
\* target length L alone (3L + 1, or 3L + 2 where the floating-point sum of 3L
\* thirds is below L; 1 when L = 0), a run still ticking has made fewer, and
\* eventually no interval is active for good.
C3_GlitchTerminates ==
    /\ [](\A r \in 1 .. Len(runs) :
            /\ runs[r].n <= 3 * Len(originalText) + 2
            /\ (Len(originalText) = 0 /\ ~runs[r].active) => runs[r].n = 1
            /\ IF runs[r].active
               THEN runs[r].n < C3_Ticks(Len(originalText))
               ELSE runs[r].n = C3_Ticks(Len(originalText)))
    /\ <>[](\A r \in 1 .. Len(runs) : ~runs[r].active)

\* C3 witness: a retriggered run has cleared its interval while the first run
\* is still ticking
C3_Witness ==
    /\ Len(runs) = 2
    /\ runs[1].active
    /\ runs[1].n > 0
    /\ ~runs[2].active
    /\ Len(originalText) = 2

C4_Shown(st) == st.visible /\ st.opacity = 1 /\ st.transform = "translateY(0)"

C4_Hidden(st) == ~st.visible /\ st.opacity = 0 /\ st.transform = "translateY(20px)"

\* C4: an observed element is hidden in every state before an intersecting
\* entry for it has been delivered and revealed in every state after, so no
\* later entry hides it again; and a callback changes no element other than
\* those it reports as intersecting.
C4_ScrollReveal ==
    /\ [](\A el \in Observed :
            IF el \in intersected THEN C4_Shown(elStyle[el]) ELSE C4_Hidden(elStyle[el]))
    /\ [][\A el \in Observed :
            elStyle'[el] # elStyle[el] =>
                \E i \in 1 .. Len(entries) :
                    entries[i].target = el /\ entries[i].isIntersecting]_vars

\* C4 witness: an element was revealed, has left the viewport, the entry for
\* that has been delivered, and another element has never been revealed
C4_Witness ==
    /\ ev.kind = "observer"
    /\ entries = <<>>
    /\ \E el \in intersected : ~intersecting[el] /\ elStyle[el].visible
    /\ \E el \in Observed : el \notin intersected /\ ~elStyle[el].visible

\* C7: initParticles makes min(floor(width / 10), 100) particles, never more
\* than 100, and no frame and no resize adds, removes or reorders them.
C7_BoundedParticles ==
    /\ [](Len(particles) <= 100)
    /\ [](ev.kind = "load" =>
            Len(particles) = (IF width \div 10 < 100 THEN width \div 10 ELSE 100))
    /\ [][ /\ Len(particles') = Len(particles)
           /\ \A i \in 1 .. Len(particles) : particles'[i].id = particles[i].id ]_vars

\* C7 witness: a hundred particles, built for a wide viewport, after a resize
\* to a narrow one and a further frame
C7_Witness ==
    /\ Len(particles) = 100
    /\ width = 25
    /\ ev.kind = "frame"
    /\ frameNo >= 3

C8_Close(p, q) ==
    (p[1] - q[1]) * (p[1] - q[1]) + (p[2] - q[2]) * (p[2] - q[2]) < (150 * Unit) * (150 * Unit)

\* C8 (as claimed): in every frame, each pair of particles whose dots are
\* drawn less than 150 px apart is joined by exactly one line, from one dot to
\* the other, and no other pair is joined.
C8_ConnectionsJoinDots ==
    ev.kind = "frame" =>
        \A i \in 1 .. Len(dots) : \A j \in i + 1 .. Len(dots) :
            LET joining == { l \in lines : l.a = i /\ l.b = j }
            IN  IF C8_Close(dots[i], dots[j])
                THEN /\ Cardinality(joining) = 1
                     /\ \A l \in joining : l.from = dots[i] /\ l.to = dots[j]
                ELSE joining = {}

C9_PointerKinds == {"mousemove", "timer", "mouseenter", "mouseleave"}

C9_MenuKinds == {"toggle", "navclick"}

C9_GlitchKinds == {"mouseover", "tick"}

C9_RevealKinds == {"scroll", "observer"}

\* C9: every event changes the state of its own component only.  Pointer
\* events leave menu, particles, glitch and reveal alone; menu clicks change
\* the menu only; a resize changes width, height and the canvas size only; a
\* frame changes, of the state, only particle positions and velocities; a
\* glitch event changes the glitch state only and never the target; an
\* observer callback changes only elements it has an entry for.
C9_Independence ==
    [][ /\ ev'.kind \in C9_PointerKinds =>
             UNCHANGED <<menuVars, particleVars, glitchVars, revealVars>>
        /\ ev'.kind \in C9_MenuKinds =>
             UNCHANGED <<pointerVars, particleVars, glitchVars, revealVars>>
        /\ ev'.kind = "resize" =>
             /\ UNCHANGED <<pointerVars, menuVars, glitchVars, revealVars>>
             /\ UNCHANGED <<particles, dots, lines, rafPending>>
        /\ ev'.kind = "frame" =>
             /\ UNCHANGED <<pointerVars, menuVars, glitchVars, revealVars>>
             /\ UNCHANGED <<width, height, canvasSize, rafPending>>
             /\ Len(particles') = Len(particles)
             /\ \A i \in 1 .. Len(particles) :
                    /\ particles'[i].id = particles[i].id
                    /\ particles'[i].size = particles[i].size
        /\ ev'.kind \in C9_GlitchKinds =>
             /\ UNCHANGED <<pointerVars, menuVars, particleVars, revealVars>>
             /\ UNCHANGED <<originalText, initialText>>
        /\ ev'.kind = "tick" =>
             \A r \in 1 .. Len(runs) : r # ev'.arg => runs'[r] = runs[r]
        /\ ev'.kind \in C9_RevealKinds =>
             UNCHANGED <<pointerVars, menuVars, particleVars, glitchVars>>
        /\ ev'.kind = "observer" =>
             \A el \in Observed :
                 (\A i \in 1 .. Len(entries) : entries[i].target # el)
                     => elStyle'[el] = elStyle[el] ]_vars

\* C9 witness: after a menu click, a resize and a frame, with the glitch run
\* and the reveal as the page loaded them
C9_Witness ==
    /\ clock = 3
    /\ ev.kind = "frame"
    /\ active
    /\ width = 1200
    /\ Len(particles) = 2
    /\ text = initialText
    /\ hover = FALSE

\* C11 (as claimed): whenever Particle.update leaves a particle's x outside
\* [0, width], or its y outside [0, height], the velocity it is left with on
\* that axis points back toward the range.
C11_BouncePointsBack ==
    ev.kind = "frame" =>
        \A i \in 1 .. Len(particles) :
            /\ particles[i].x < 0 => particles[i].vx > 0
            /\ particles[i].x > width * Unit => particles[i].vx < 0
            /\ particles[i].y < 0 => particles[i].vy > 0
            /\ particles[i].y > height * Unit => particles[i].vy < 0

C12_Fillers == { chars[k] : k \in 1 .. Len(chars) }

\* ceil(n / 3)
C12_Ceil3(n) == (n + 2) \div 3

\* C12 (as claimed): right after the tick of a run that has ticked n times
\* before it (counter n / 3), every character shown at an index below n / 3
\* is the target's, every other character shown is a filler, and so
\* ceil(n / 3) characters are revealed (all of them once that exceeds the
\* text), whatever the text was before the tick.
C12_ProgressiveReveal ==
    (ev.kind = "tick" /\ Len(initialText) = Len(originalText)) =>
        LET n == runs[ev.arg].n - 1
            revealed == { i \in 1 .. Len(text) : text[i] \notin C12_Fillers }
        IN  /\ Len(text) = Len(originalText)
            /\ \A i \in 1 .. Len(text) :
                 IF 3 * (i - 1) < n
                 THEN text[i] = originalText[i]
                 ELSE text[i] \in C12_Fillers
            /\ Cardinality(revealed) = Min(C12_Ceil3(n), Len(text))

\* C13 (as claimed): at most one glitch interval is active at any time; a
\* mouseover during a run does not leave two runs writing the text.
C13_SingleRun ==
    Cardinality({ r \in 1 .. Len(runs) : runs[r].active }) <= 1

\* C14: the follower is where the page loaded it or where the cursor marker
\* was put earlier; the positions it is given are, in the same order, the
\* positions of the mousemoves (those of the pending timers still to come),
\* so it never returns to an older pointer position after a newer one.
C14_FollowerOrder ==
    /\ Len(followLog) <= Len(moveLog)
    /\ \A i \in 1 .. Len(followLog) : followLog[i] = moveLog[i]
    /\ Len(timers) = Len(moveLog) - Len(followLog)
    /\ followerPos = IF followLog = <<>> THEN "" ELSE moveLog[Len(followLog)]
    /\ cursorPos = IF moveLog = <<>> THEN "" ELSE moveLog[Len(moveLog)]

\* C14 witness: the follower has been given (0, 1), (1, 0) and again (0, 1),
\* and no timer is pending
C14_Witness ==
    /\ followLog = << <<0, 1>>, <<1, 0>>, <<0, 1>> >>
    /\ ev.kind = "timer"
    /\ timers = <<>>

\* C15: between tasks exactly one animation-frame callback is pending; a
\* frame moves every particle by its velocity once and draws one dot for each
\* at its new position; no other event changes the number of pending
\* callbacks or runs a frame.
C15_SingleLoop ==
    /\ [](rafPending = 1)
    /\ [][ IF ev'.kind = "frame"
           THEN /\ frameNo' = frameNo + 1
                /\ Len(dots') = Len(particles)
                /\ \A i \in 1 .. Len(particles) :
                     /\ particles'[i].x = particles[i].x + particles[i].vx
                     /\ particles'[i].y = particles[i].y + particles[i].vy
                     /\ dots'[i] = <<particles'[i].x, particles'[i].y>>
           ELSE UNCHANGED <<rafPending, frameNo, particles, dots, lines>> ]_vars

\* C15 witness: a frame has run after a resize and before a retriggered glitch run
C15_Witness ==
    /\ clock = 3
    /\ ev.kind = "mouseover"
    /\ frameNo = 2
    /\ width = 1200
    /\ rafPending = 1

\* C16 (as claimed): in every state, after any resize too, there are
\* min(floor(width / 10), 100) particles for the current width.
C16_ResponsiveCount ==
    Len(particles) = (IF width \div 10 < 100 THEN width \div 10 ELSE 100)

=============================================================================
